---- MODULE Spec2Model ----
(***************************************************************************)
(* The agent orchestrator of autobuild-orchestrator (Go service):          *)
(* the queue manager (internal/queue/manager.go) and the worktree manager  *)
(* (internal/worktree/manager.go), with the HTTP handlers that call them.  *)
(*                                                                         *)
(* Every critical section of the code (a method body between Lock and      *)
(* Unlock) is one action.  executeJob, which runs in its own goroutine     *)
(* and takes the locks one after the other, is split at the places where   *)
(* it holds no lock.  The last part of the module takes the same code      *)
(* lock by lock: acquiring a lock, the section and its release are steps   *)
(* of their own, and the admission pass is one step per queued job.        *)
(***************************************************************************)
EXTENDS Integers, Sequences, FiniteSets, Bags, TLC

VARIABLES
    cfg,          \* config.QueueConfig / config.WorktreeConfig, fixed at start
    jobs,         \* Manager.jobs: job id |-> Job (ids are 1..Len(jobs), in Submit order)
    queue,        \* Manager.queue: the slice of queued job ids
    activeJobs,   \* Manager.activeJobs: project |-> count
    workers,      \* number of tokens in the Manager.workers channel
    resultChan,   \* Manager.resultChan: buffered channel of JobResult
    task,         \* per job: the executeJob goroutine (pc, the wt and err locals)
    worktrees,    \* worktree.Manager.worktrees: worktree id |-> Worktree
    repoCache,    \* worktree.Manager.repoCache: the projects with a local repo path
    nextWt,       \* the next fresh worktree id (uuid.New)
    delTasks,     \* the bag of worktree ids of the pending `go worktreeManager.Delete(id)`
    clock,        \* time.Now()
    board,        \* the ticket tracker's database: tickets, dependencies, requests in progress
    run           \* who holds Manager.mu and worktree.Manager.mu, and where the Start loop
                  \* and the HTTP handlers stand, when critical sections are taken step by step

vars == <<cfg, jobs, queue, activeJobs, workers, resultChan, task, worktrees,
          repoCache, nextWt, delTasks, clock, board, run>>

----------------------------------------------------------------------------
(* Bounds of the model *)

MaxJobs == 2          \* jobs submitted in a run
MaxResults == 1       \* callbacks waiting in resultChan
MaxTime == 1          \* the clock stops here
MaxApiWt == 1         \* worktrees the HTTP endpoint creates in a run
MaxDeletes == 1       \* deletion goroutines that have not run yet
MaxTickets == 3       \* tickets created on the board
MaxReqs == 2          \* tracker requests in progress at the same time
MaxCallers == 1       \* HTTP requests the server handles at the same time

(* Program constants *)

PriorityLow == 0
PriorityNormal == 1
PriorityHigh == 2
PriorityCritical == 3
ResultChanCap == 100
DefaultProjectMaxParallel == 3

DefaultMaxParallelJobs == 12

Projects == {"p1", "p2"}
NoTime == -1          \* a nil *time.Time
NoWorktree == 0       \* the empty WorktreeID

JobIds == 1..Len(jobs)
IsTerminal(s) == s \in {"completed", "failed", "cancelled"}
IsActive(s) == s \in {"dispatched", "running"}

----------------------------------------------------------------------------
(* Pure helpers of the queue manager *)

getProjectMaxParallel(projectID) == DefaultProjectMaxParallel

\* The index at which insertByPriority puts a job of priority prio into q.
RECURSIVE insertIdx(_, _, _, _)
insertIdx(js, q, prio, i) ==
    IF i > Len(q) THEN Len(q) + 1
    ELSE IF prio > js[q[i]].Priority THEN i
    ELSE insertIdx(js, q, prio, i + 1)

\* insertByPriority with >= for >: a job jumps ahead of its equals.
RECURSIVE insertIdxGeq(_, _, _, _)
insertIdxGeq(js, q, prio, i) ==
    IF i > Len(q) THEN Len(q) + 1
    ELSE IF prio >= js[q[i]].Priority THEN i
    ELSE insertIdxGeq(js, q, prio, i + 1)

insertByPriorityGeq(js, q, id) ==
    LET at == insertIdxGeq(js, q, js[id].Priority, 1)
    IN  SubSeq(q, 1, at - 1) \o <<id>> \o SubSeq(q, at, Len(q))

insertByPriority(js, q, id) ==
    LET at == insertIdx(js, q, js[id].Priority, 1)
    IN  SubSeq(q, 1, at - 1) \o <<id>> \o SubSeq(q, at, Len(q))

\* The first index of id in q, 0 when absent.
RECURSIVE indexOf(_, _, _)
indexOf(q, id, i) ==
    IF i > Len(q) THEN 0
    ELSE IF q[i] = id THEN i
    ELSE indexOf(q, id, i + 1)

removeFromQueue(q, id) ==
    LET at == indexOf(q, id, 1)
    IN  IF at = 0 THEN q ELSE SubSeq(q, 1, at - 1) \o SubSeq(q, at + 1, Len(q))

getQueuePosition(q, id) ==
    LET at == indexOf(q, id, 1) IN IF at = 0 THEN -1 ELSE at

\* activeJobs[p]-- followed by the floor at zero.
\* The counters left as they are.
keepActive(aj, p) == aj

decActive(aj, p) ==
    [aj EXCEPT ![p] = IF aj[p] - 1 < 0 THEN 0 ELSE aj[p] - 1]

----------------------------------------------------------------------------
(* Pure helpers of the worktree manager *)

countActive(wts) == Cardinality({w \in DOMAIN wts : wts[w].Status = "active"})

\* ensureRepo: the cached path, or the error of the unimplemented clone.
ensureRepo(cache, projectID) ==
    IF projectID \in cache THEN "ok" ELSE "repo cloning not yet implemented"

\* Create without the capacity check.
createErrorUnbounded(wts, cache, maxActive, projectID, gitOk) ==
    IF ensureRepo(cache, projectID) # "ok" THEN "failed to ensure repo"
    ELSE IF ~gitOk THEN "failed to create worktree"
    ELSE "ok"

\* Manager.Create up to the git call: the error it returns, or "ok".
\* gitOk is the outcome of `git worktree add`.
createError(wts, cache, maxActive, projectID, gitOk) ==
    IF countActive(wts) >= maxActive THEN "maximum worktrees reached"
    ELSE IF ensureRepo(cache, projectID) # "ok" THEN "failed to ensure repo"
    ELSE IF ~gitOk THEN "failed to create worktree"
    ELSE "ok"

newWorktree(projectID, ticketID, now) ==
    [ProjectID |-> projectID, TicketID |-> ticketID, Status |-> "active",
     CreatedAt |-> now, LastUsedAt |-> now]

\* Create that registers the record whatever the outcome.
createMapAlways(wts, cache, maxActive, id, projectID, ticketID, gitOk, now) ==
    [w \in DOMAIN wts \cup {id} |->
        IF w = id THEN newWorktree(projectID, ticketID, now) ELSE wts[w]]

\* The worktree map after Manager.Create.
createMap(wts, cache, maxActive, id, projectID, ticketID, gitOk, now) ==
    IF createError(wts, cache, maxActive, projectID, gitOk) = "ok"
    THEN [w \in DOMAIN wts \cup {id} |->
             IF w = id THEN newWorktree(projectID, ticketID, now) ELSE wts[w]]
    ELSE wts

\* Delete that reports success for every id.
deleteErrorNone(wts, cache, id) == "ok"

\* Manager.Delete: the error it returns, or "ok".
deleteError(wts, cache, id) ==
    IF id \notin DOMAIN wts THEN "worktree not found"
    ELSE IF wts[id].ProjectID \notin cache THEN "repo not found for project"
    ELSE "ok"

\* Delete that leaves the record in the map.
deleteMapKeep(wts, cache, id) == wts

\* The worktree map after Manager.Delete (whichever removal path ran).
deleteMap(wts, cache, id) ==
    IF deleteError(wts, cache, id) = "ok"
    THEN [w \in DOMAIN wts \ {id} |-> wts[w]]
    ELSE wts

\* Cleanup that also drops the worktrees exactly as old as the max age.
cleanupMapGeq(wts, now, maxAge) ==
    [w \in {x \in DOMAIN wts : ~(now - wts[x].LastUsedAt >= maxAge)} |-> wts[w]]

\* The worktree map after Manager.Cleanup: the stale worktrees are dropped.
cleanupMap(wts, now, maxAge) ==
    [w \in {x \in DOMAIN wts : ~(now - wts[x].LastUsedAt > maxAge)} |-> wts[w]]

----------------------------------------------------------------------------
(* The queue manager's API *)

newJob(ticketID, projectID, priority, now) ==
    [TicketID |-> ticketID, ProjectID |-> projectID, Priority |-> priority,
     Status |-> "pending", WorktreeID |-> NoWorktree, ErrorMessage |-> "",
     RetryCount |-> 0, CreatedAt |-> now, DispatchedAt |-> NoTime,
     StartedAt |-> NoTime, CompletedAt |-> NoTime]

newTask == [pc |-> "none", wt |-> NoWorktree, err |-> "", starts |-> 0]

Submit(ticketID, projectID, priority) ==
    /\ LET id == Len(jobs) + 1
           js == Append(jobs, newJob(ticketID, projectID, priority, clock))
       IN  /\ jobs' = js
           /\ queue' = insertByPriority(js, queue, id)
           /\ task' = Append(task, newTask)
    /\ UNCHANGED <<run, board, cfg, activeJobs, workers, resultChan, worktrees, repoCache,
                   nextWt, delTasks, clock>>

\* The position Submit returns for the job it has just queued.
submitPosition(js, q, id) == getQueuePosition(insertByPriority(js, q, id), id)

\* The error CancelJob returns for job id, "" when it cancels.
cancelError(js, id) ==
    IF id \notin 1..Len(js) THEN "ErrJobNotFound"
    ELSE IF js[id].Status = "completed" \/ js[id].Status = "failed"
         THEN "ErrJobAlreadyCompleted"
    ELSE ""

CancelJob(id) ==
    /\ IF cancelError(jobs, id) = ""
       THEN /\ jobs' = [jobs EXCEPT ![id].Status = "cancelled", ![id].CompletedAt = clock]
            /\ queue' = removeFromQueue(queue, id)
       ELSE UNCHANGED <<jobs, queue>>
    /\ UNCHANGED <<run, board, cfg, activeJobs, workers, resultChan, task, worktrees, repoCache,
                   nextWt, delTasks, clock>>

\* A HandleCallback that also completes the ticket's jobs on the spot.
HandleCallbackSync(ticketID, status) ==
    /\ Len(resultChan) < ResultChanCap
    /\ Len(resultChan) < MaxResults
    /\ resultChan' = Append(resultChan, [TicketID |-> ticketID, Status |-> status])
    /\ jobs' = [id \in DOMAIN jobs |->
                  IF jobs[id].TicketID = ticketID
                  THEN [jobs[id] EXCEPT !.Status = "completed"]
                  ELSE jobs[id]]
    /\ UNCHANGED <<run, board, cfg, queue, activeJobs, workers, task, worktrees, repoCache,
                   nextWt, delTasks, clock>>

\* Handlers.HandleCallback -> Manager.HandleCallback: a send on resultChan.
HandleCallback(ticketID, status) ==
    /\ Len(resultChan) < ResultChanCap
    /\ Len(resultChan) < MaxResults
    /\ resultChan' = Append(resultChan, [TicketID |-> ticketID, Status |-> status])
    /\ UNCHANGED <<run, board, cfg, jobs, queue, activeJobs, workers, task, worktrees, repoCache,
                   nextWt, delTasks, clock>>

----------------------------------------------------------------------------
(* The Start loop: the admission pass and the callback consumer *)

\* A dispatch that also counts a retry on the job.
dispatchJobRetry(st, id) ==
    [jobs |-> [st.jobs EXCEPT ![id].Status = "dispatched", ![id].DispatchedAt = clock,
                              ![id].RetryCount = @ + 1],
     activeJobs |-> [st.activeJobs EXCEPT ![st.jobs[id].ProjectID] = @ + 1],
     workers |-> st.workers + 1,
     task |-> [st.task EXCEPT ![id].pc = "create", ![id].starts = @ + 1]]

dispatchJob(st, id) ==
    [jobs |-> [st.jobs EXCEPT ![id].Status = "dispatched", ![id].DispatchedAt = clock],
     activeJobs |-> [st.activeJobs EXCEPT ![st.jobs[id].ProjectID] = @ + 1],
     workers |-> st.workers + 1,
     task |-> [st.task EXCEPT ![id].pc = "create", ![id].starts = @ + 1]]

\* The per-project limit leaves room for the job.
projectHasRoom(st, id) ==
    st.activeJobs[st.jobs[id].ProjectID] < getProjectMaxParallel(st.jobs[id].ProjectID)

\* The non-blocking send on the workers channel succeeds.
workerFree(st) == st.workers < cfg.MaxParallelJobs

\* An admission pass that does not look at the status of the queued jobs.
RECURSIVE processQueueFromAny(_, _)
processQueueFromAny(i, st) ==
    IF i > Len(queue) THEN st
    ELSE IF ~projectHasRoom(st, queue[i]) THEN processQueueFromAny(i + 1, st)
    ELSE IF workerFree(st) THEN processQueueFromAny(i + 1, dispatchJob(st, queue[i]))
    ELSE st

\* The loop of processQueue from index i on.
RECURSIVE processQueueFrom(_, _)
processQueueFrom(i, st) ==
    IF i > Len(queue) THEN st
    ELSE IF st.jobs[queue[i]].Status # "pending" THEN processQueueFrom(i + 1, st)
    ELSE IF ~projectHasRoom(st, queue[i]) THEN processQueueFrom(i + 1, st)
    ELSE IF workerFree(st) THEN processQueueFrom(i + 1, dispatchJob(st, queue[i]))
    ELSE st

processQueue ==
    LET st == processQueueFrom(1, [jobs |-> jobs, activeJobs |-> activeJobs,
                                   workers |-> workers, task |-> task])
    IN  /\ jobs' = st.jobs
        /\ activeJobs' = st.activeJobs
        /\ workers' = st.workers
        /\ task' = st.task
        /\ UNCHANGED <<run, board, cfg, queue, resultChan, worktrees, repoCache, nextWt,
                       delTasks, clock>>

\* A scan that stops at any job, whatever its ticket id.
anyJob(js, ticketID) == 1..Len(js)

\* The jobs handleResult's scan of the job table can stop at: Go iterates a
\* map in no fixed order, so any job with the ticket id may be the first.
matchingJobs(js, ticketID) == {id \in 1..Len(js) : js[id].TicketID = ticketID}

resultStatus(result) == IF result.Status = "success" THEN "completed" ELSE "failed"

\* The job table after handleResult has matched job id.
applyResult(js, id, result, now) ==
    [js EXCEPT ![id].CompletedAt = now,
               ![id].Status = resultStatus(result),
               ![id].ErrorMessage = IF result.Status = "success" THEN @ ELSE "result.Error"]

\* handleResult, matching job id (0: no job has the ticket id).
handleResultOn(id) ==
    /\ resultChan # <<>>
    /\ resultChan' = Tail(resultChan)
    /\ IF id = 0
       THEN /\ matchingJobs(jobs, Head(resultChan).TicketID) = {}
            /\ UNCHANGED <<jobs, queue, activeJobs, delTasks>>
       ELSE /\ id \in matchingJobs(jobs, Head(resultChan).TicketID)
            /\ jobs' = applyResult(jobs, id, Head(resultChan), clock)
            /\ activeJobs' = decActive(activeJobs, jobs[id].ProjectID)
            /\ queue' = removeFromQueue(queue, id)
            /\ delTasks' = IF jobs[id].WorktreeID # NoWorktree
                           THEN delTasks (+) SetToBag({jobs[id].WorktreeID})
                           ELSE delTasks
    /\ UNCHANGED <<run, board, cfg, workers, task, worktrees, repoCache, nextWt, clock>>

handleResult == \E id \in {0} \cup JobIds : handleResultOn(id)

----------------------------------------------------------------------------
(* executeJob: the goroutine of one dispatched job *)

\* failJob putting the job back to pending.
failJobRequeue(js, id, msg, now) ==
    [js EXCEPT ![id].Status = "pending", ![id].ErrorMessage = msg]

failJob(js, id, msg, now) ==
    [js EXCEPT ![id].Status = "failed", ![id].ErrorMessage = msg, ![id].CompletedAt = now]

\* A Create in executeJob that hands out the id of the previous worktree again.
ExecCreateReuse(id, gitOk) ==
    /\ id \in JobIds
    /\ task[id].pc = "create"
    /\ LET err == createError(worktrees, repoCache, cfg.MaxActive, jobs[id].ProjectID, gitOk)
           wt == IF nextWt > 1 THEN nextWt - 1 ELSE nextWt
       IN  /\ worktrees' = createMap(worktrees, repoCache, cfg.MaxActive, wt,
                                     jobs[id].ProjectID, jobs[id].TicketID, gitOk, clock)
           /\ nextWt' = IF err = "ok" /\ wt = nextWt THEN nextWt + 1 ELSE nextWt
           /\ task' = [task EXCEPT ![id].pc = "created",
                                   ![id].wt = IF err = "ok" THEN wt ELSE NoWorktree,
                                   ![id].err = IF err = "ok" THEN "" ELSE err]
    /\ UNCHANGED <<run, board, cfg, jobs, queue, activeJobs, workers, resultChan, repoCache,
                   delTasks, clock>>

\* wt, err := worktreeManager.Create(job.ProjectID, job.TicketID, job.BranchName)
ExecCreate(id, gitOk) ==
    /\ id \in JobIds
    /\ task[id].pc = "create"
    /\ LET err == createError(worktrees, repoCache, cfg.MaxActive, jobs[id].ProjectID, gitOk)
       IN  /\ worktrees' = createMap(worktrees, repoCache, cfg.MaxActive, nextWt,
                                     jobs[id].ProjectID, jobs[id].TicketID, gitOk, clock)
           /\ nextWt' = IF err = "ok" THEN nextWt + 1 ELSE nextWt
           /\ task' = [task EXCEPT ![id].pc = "created",
                                   ![id].wt = IF err = "ok" THEN nextWt ELSE NoWorktree,
                                   ![id].err = IF err = "ok" THEN "" ELSE err]
    /\ UNCHANGED <<run, board, cfg, jobs, queue, activeJobs, workers, resultChan, repoCache,
                   delTasks, clock>>

\* After Create returned: failJob on an error, else the job is marked running.
ExecAfterCreate(id) ==
    /\ id \in JobIds
    /\ task[id].pc = "created"
    /\ IF task[id].err # ""
       THEN /\ jobs' = failJob(jobs, id, "Failed to create worktree", clock)
            /\ activeJobs' = decActive(activeJobs, jobs[id].ProjectID)
            /\ queue' = removeFromQueue(queue, id)
       ELSE /\ jobs' = [jobs EXCEPT ![id].WorktreeID = task[id].wt,
                                    ![id].Status = "running",
                                    ![id].StartedAt = clock]
            /\ UNCHANGED <<activeJobs, queue>>
    /\ task' = [task EXCEPT ![id].pc = "exit"]
    /\ UNCHANGED <<run, board, cfg, workers, resultChan, worktrees, repoCache, nextWt,
                   delTasks, clock>>

\* An executeJob that returns without giving its worker slot back.
ExecReturnKeep(id) ==
    /\ id \in JobIds
    /\ task[id].pc = "exit"
    /\ task' = [task EXCEPT ![id].pc = "done"]
    /\ UNCHANGED <<run, board, cfg, jobs, queue, activeJobs, workers, resultChan, worktrees,
                   repoCache, nextWt, delTasks, clock>>

\* The rest of executeJob: dispatchToGitHubActions (which returns nil) on the
\* running path, then the deferred release of the worker slot.
ExecReturn(id) ==
    /\ id \in JobIds
    /\ task[id].pc = "exit"
    /\ workers' = workers - 1
    /\ task' = [task EXCEPT ![id].pc = "done"]
    /\ UNCHANGED <<run, board, cfg, jobs, queue, activeJobs, resultChan, worktrees, repoCache,
                   nextWt, delTasks, clock>>

----------------------------------------------------------------------------
(* The worktree manager's callers other than executeJob *)

\* Handlers.CreateWorktree -> Manager.Create
CreateWorktree(projectID, ticketID, gitOk) ==
    /\ LET err == createError(worktrees, repoCache, cfg.MaxActive, projectID, gitOk)
       IN  /\ worktrees' = createMap(worktrees, repoCache, cfg.MaxActive, nextWt,
                                     projectID, ticketID, gitOk, clock)
           /\ nextWt' = IF err = "ok" THEN nextWt + 1 ELSE nextWt
    /\ UNCHANGED <<run, board, cfg, jobs, queue, activeJobs, workers, resultChan, task, repoCache,
                   delTasks, clock>>

\* Handlers.DeleteWorktree -> Manager.Delete
DeleteWorktree(id) ==
    /\ worktrees' = deleteMap(worktrees, repoCache, id)
    /\ UNCHANGED <<run, board, cfg, jobs, queue, activeJobs, workers, resultChan, task, repoCache,
                   nextWt, delTasks, clock>>

\* A goroutine `go m.worktreeManager.Delete(job.WorktreeID)` of handleResult runs.
DeleteTask(id) ==
    /\ BagIn(id, delTasks)
    /\ worktrees' = deleteMap(worktrees, repoCache, id)
    /\ delTasks' = delTasks (-) SetToBag({id})
    /\ UNCHANGED <<run, board, cfg, jobs, queue, activeJobs, workers, resultChan, task, repoCache,
                   nextWt, clock>>

\* Manager.Delete from either caller.
DeleteCall(id) == DeleteWorktree(id) \/ DeleteTask(id)

\* Manager.Cleanup (main defers it)
Cleanup ==
    /\ worktrees' = cleanupMap(worktrees, clock, cfg.MaxAge)
    /\ UNCHANGED <<run, board, cfg, jobs, queue, activeJobs, workers, resultChan, task, repoCache,
                   nextWt, delTasks, clock>>

\* Time passes.
Tick ==
    /\ clock < MaxTime
    /\ clock' = clock + 1
    /\ UNCHANGED <<run, board, cfg, jobs, queue, activeJobs, workers, resultChan, task, worktrees,
                   repoCache, nextWt, delTasks>>

----------------------------------------------------------------------------
(* The inputs of a run *)

Priorities == {PriorityNormal, PriorityCritical}
Outcomes == {"success", "failure"}
TicketOrder == <<"t1", "t2", "t3", "t4", "t5", "t6">>
ProjectOrder == <<"p1", "p2">>

\* Ticket and project ids are opaque strings the code only compares for
\* equality, so a run takes them in a fixed order: the ids in use and the
\* first one not yet in use.
Upto(order, n) == {order[i] : i \in 1..(IF n < Len(order) THEN n + 1 ELSE Len(order))}
UsedTickets == {jobs[i].TicketID : i \in JobIds}
UsedProjects == {jobs[i].ProjectID : i \in JobIds}
TicketChoice == Upto(TicketOrder, IF Cardinality(UsedTickets) < 1 THEN 0 ELSE 1)
ProjectChoice == Upto(ProjectOrder, Cardinality(UsedProjects))

\* Every job with a ticket of its own.
JobTicket(id) == TicketOrder[id]

\* The worktree ids a Delete request may name: the ids drawn so far and one unknown id.
WtIds == 1..nextWt

\* The tracker's tables before any ticket is created.
NewBoard == [status |-> <<>>, deps |-> {}, reqs |-> {}]

\* A goroutine: the Start loop, the executeJob of a job, an HTTP handler, a
\* `go worktreeManager.Delete(id)`.
NoThread == <<"none", 0>>
LoopThread == <<"loop", 0>>
ExecThread(id) == <<"exec", id>>
ApiThread(c) == <<"api", c>>
DelThread(w) == <<"del", w>>

Callers == 1..MaxCallers

\* A sync.RWMutex nobody holds.
FreeMutex == [w |-> NoThread, r |-> {}]

NoResult == [TicketID |-> "", Status |-> ""]

\* Both locks free, the Start loop at its select, no request being handled.
NewRun ==
    [mu |-> FreeMutex, wmu |-> FreeMutex,
     loop |-> [pc |-> "select", i |-> 0, result |-> NoResult],
     api |-> [c \in Callers |-> [op |-> "idle", pc |-> "idle"]]]

InitState(c, cache) ==
    /\ cfg = c
    /\ jobs = <<>>
    /\ queue = <<>>
    /\ activeJobs = [p \in Projects |-> 0]
    /\ workers = 0
    /\ resultChan = <<>>
    /\ task = <<>>
    /\ worktrees = <<>>
    /\ repoCache = cache
    /\ nextWt = 1
    /\ delTasks = EmptyBag
    /\ clock = 0
    /\ board = NewBoard
    /\ run = NewRun

Config(n, maxActive) == [MaxParallelJobs |-> n, MaxActive |-> maxActive, MaxAge |-> 0]

----------------------------------------------------------------------------
(* The program: both managers as NewManager builds them (empty maps), the     *)
(* Start loop, the execution goroutines and the HTTP API.                     *)

Init == \E n \in {1, 2} : InitState(Config(n, 1), {})

Next ==
    \/ /\ Len(jobs) < MaxJobs
       /\ \E t \in TicketChoice, p \in ProjectChoice, pr \in Priorities : Submit(t, p, pr)
    \/ \E id \in 1..MaxJobs : CancelJob(id)
    \/ \E t \in TicketChoice, o \in Outcomes : HandleCallback(t, o)
    \/ processQueue
    \/ handleResult
    \/ \E id \in JobIds, gitOk \in BOOLEAN : ExecCreate(id, gitOk)
    \/ \E id \in JobIds : ExecAfterCreate(id)
    \/ \E id \in JobIds : ExecReturn(id)
    \/ \E p \in ProjectChoice, t \in TicketChoice : CreateWorktree(p, t, TRUE)
    \/ \E id \in WtIds : DeleteCall(id)
    \/ Tick

Spec == Init /\ [][Next]_vars

----------------------------------------------------------------------------
(* One project, a ticket per job, as many jobs as it takes to pass the       *)
(* per-project limit; the workflow reports success for the first job.        *)

JobsOverLimit == DefaultProjectMaxParallel + 2

InitCap == InitState(Config(DefaultMaxParallelJobs, 1), {})

NextCap ==
    \/ /\ Len(jobs) < JobsOverLimit
       /\ Submit(JobTicket(Len(jobs) + 1), "p1", PriorityNormal)
    \/ HandleCallback(JobTicket(1), "success")
    \/ processQueue
    \/ handleResult
    \/ \E id \in JobIds : ExecCreate(id, TRUE)
    \/ \E id \in JobIds : ExecAfterCreate(id)
    \/ \E id \in JobIds : ExecReturn(id)

SpecCap == InitCap /\ [][NextCap]_vars

----------------------------------------------------------------------------
(* Claims about the job state machine *)

ActiveInProject(p) ==
    {id \in JobIds : jobs[id].ProjectID = p /\ IsActive(jobs[id].Status)}

\* C1: in every reachable state the number of jobs of one project whose status
\* is dispatched or running is at most that project's parallel limit.
C1_ProjectLimit ==
    \A p \in Projects : Cardinality(ActiveInProject(p)) <= getProjectMaxParallel(p)

\* The outcome of a callback is on the job: completed, or failed with the
\* callback's error text.
ReleasedByCallback(id) ==
    \/ jobs[id].Status = "completed"
    \/ jobs[id].Status = "failed" /\ jobs[id].ErrorMessage = "result.Error"

WasDispatched(id) == jobs[id].DispatchedAt # NoTime

\* C2: at most MaxParallelJobs jobs are dispatched or running at any time, and
\* with a limit of 1 and two jobs of different projects the second is admitted
\* only after the first one has been released by its callback.
C2_GlobalLimit ==
    /\ Cardinality({id \in JobIds : IsActive(jobs[id].Status)}) <= cfg.MaxParallelJobs
    /\ cfg.MaxParallelJobs = 1 =>
         \A a, b \in JobIds :
            (jobs[a].ProjectID # jobs[b].ProjectID /\ WasDispatched(a) /\ WasDispatched(b))
               => (ReleasedByCallback(a) \/ ReleasedByCallback(b))

\* C3: once a job's status is completed, failed or cancelled, no step changes it.
C3_TerminalAbsorbing ==
    [][\A id \in JobIds :
          IsTerminal(jobs[id].Status) => jobs'[id].Status = jobs[id].Status]_vars

Edges ==
    {<<"pending", "dispatched">>, <<"pending", "cancelled">>,
     <<"dispatched", "running">>,
     <<"dispatched", "failed">>, <<"running", "failed">>,
     <<"dispatched", "cancelled">>, <<"running", "cancelled">>,
     <<"dispatched", "completed">>, <<"running", "completed">>}

\* C4: every change of a job's status is an edge of the state machine.
C4_OnlyEdges ==
    [][\A id \in JobIds :
          jobs'[id].Status # jobs[id].Status
             => <<jobs[id].Status, jobs'[id].Status>> \in Edges]_vars

\* A step of the callback consumer that applies the result at the head of the
\* channel to job id.
AppliesResultTo(id) ==
    /\ resultChan # <<>>
    /\ resultChan' = Tail(resultChan)
    /\ matchingJobs(jobs, Head(resultChan).TicketID) = {id}

\* C5: a success callback delivered again for a dispatched job that a success
\* callback has already completed leaves the job's status, completed_at and
\* error message and the project's active-job counter as they were.
C5_DuplicateCallback ==
    [][\A id \in JobIds :
          (AppliesResultTo(id) /\ Head(resultChan).Status = "success"
                               /\ WasDispatched(id)
                               /\ jobs[id].Status = "completed")
             => (jobs'[id] = jobs[id] /\ activeJobs' = activeJobs)]_vars

\* C8: CancelJob on a terminal job fails with ErrJobAlreadyCompleted and changes
\* no field of the job; on an unknown id it fails with ErrJobNotFound and
\* changes nothing.
C8_CancelTerminal ==
    [][\A id \in 1..MaxJobs :
          /\ (CancelJob(id) /\ id \in JobIds /\ IsTerminal(jobs[id].Status))
                => (cancelError(jobs, id) = "ErrJobAlreadyCompleted" /\ jobs' = jobs)
          /\ (CancelJob(id) /\ id \notin JobIds)
                => (cancelError(jobs, id) = "ErrJobNotFound" /\ UNCHANGED vars)]_vars

----------------------------------------------------------------------------
(* The pending list under submissions of mixed priority: one project, a      *)
(* ticket per job, one worker slot, workflows that report success.           *)

QueueJobs == MaxJobs + 1

InitOrder == InitState(Config(1, 1), {})

NextOrder ==
    \/ /\ Len(jobs) < QueueJobs
       /\ \E pr \in Priorities : Submit(JobTicket(Len(jobs) + 1), "p1", pr)
    \/ \E id \in JobIds : CancelJob(id)
    \/ \E id \in JobIds : HandleCallback(JobTicket(id), "success")
    \/ processQueue
    \/ handleResult
    \/ \E id \in JobIds : ExecCreate(id, TRUE)
    \/ \E id \in JobIds : ExecAfterCreate(id)
    \/ \E id \in JobIds : ExecReturn(id)

SpecOrder == InitOrder /\ [][NextOrder]_vars

\* Job a is ahead of job b in the order of the pending list: higher priority
\* first, and the earlier submission first among equal priorities (job ids
\* are assigned in submission order).
Ahead(a, b) ==
    \/ jobs[a].Priority > jobs[b].Priority
    \/ jobs[a].Priority = jobs[b].Priority /\ a < b

\* C7: the pending list is sorted by priority descending and submission order
\* ascending among equal priorities, and holds every pending job.
C7_QueueSorted ==
    /\ \A i, j \in 1..Len(queue) : i < j => Ahead(queue[i], queue[j])
    /\ \A id \in JobIds : jobs[id].Status = "pending" => indexOf(queue, id, 1) # 0

\* Submitted as [normal, critical, normal], queued as [critical, normal#1, normal#2].
C7_Witness ==
    /\ Len(jobs) = 3
    /\ jobs[1].Priority = PriorityNormal
    /\ jobs[2].Priority = PriorityCritical
    /\ jobs[3].Priority = PriorityNormal
    /\ queue = <<2, 1, 3>>

----------------------------------------------------------------------------
(* The worktree manager under every caller. ensureRepo never writes the repo *)
(* cache, so the program runs with the empty cache; the other caches drawn    *)
(* here are the manager's states once repositories are registered, the only  *)
(* ones in which Create gets past ensureRepo.                                 *)

DefaultMaxActive == 20

\* Worktrees created through the HTTP endpoint so far.
ApiCreated ==
    (nextWt - 1) - Cardinality({id \in JobIds : task[id].wt # NoWorktree})

InitCached ==
    \E cache \in SUBSET Projects, m \in {1, 2} : InitState(Config(2, m), cache)

NextCached ==
    \/ /\ Len(jobs) < MaxJobs
       /\ Submit(JobTicket(Len(jobs) + 1), "p1", PriorityNormal)
    \/ /\ BagCardinality(delTasks) + Len(resultChan) < MaxDeletes
       /\ \E id \in JobIds : HandleCallback(JobTicket(id), "success")
    \/ processQueue
    \/ handleResult
    \/ \E id \in JobIds, gitOk \in BOOLEAN : ExecCreate(id, gitOk)
    \/ \E id \in JobIds : ExecAfterCreate(id)
    \/ \E id \in JobIds : ExecReturn(id)
    \/ /\ ApiCreated < MaxApiWt
       /\ CreateWorktree("p2", TicketOrder[Len(TicketOrder)], TRUE)
    \/ \E id \in WtIds : DeleteCall(id)
    \/ Cleanup
    \/ Tick

SpecCached == InitCached /\ [][NextCached]_vars

\* C6: the number of active worktrees never exceeds cfg.MaxActive, and a
\* Create issued when the count is at the maximum adds no worktree and, from
\* an execution task, returns the capacity error.
C6_WorktreeCap ==
    /\ [](countActive(worktrees) <= cfg.MaxActive)
    /\ [][countActive(worktrees) >= cfg.MaxActive
             => /\ DOMAIN worktrees' \subseteq DOMAIN worktrees
                /\ \A id \in JobIds :
                      (task[id].pc = "create" /\ task'[id].pc = "created")
                         => task'[id].err = "maximum worktrees reached"]_vars

\* The map is full and an execution task's Create was refused for it.
C6_Witness ==
    /\ countActive(worktrees) = cfg.MaxActive
    /\ \E id \in JobIds : task[id].err = "maximum worktrees reached"

----------------------------------------------------------------------------
(* Admission over time: one project and one worker slot, a job more than the *)
(* project's limit, a ticket per job. The Start loop, the execution          *)
(* goroutines and the deletion goroutines are scheduled fairly; requests     *)
(* (Submit, CancelJob, callbacks) come when the outside sends them.          *)

LiveJobs == DefaultProjectMaxParallel + 1

InitLive == \E cache \in {{}, {"p1"}} : InitState(Config(1, DefaultMaxActive), cache)

\* The workflow that executeJob started for job id reports its outcome.
Report(id) ==
    /\ id \in JobIds
    /\ task[id].pc = "done"
    /\ task[id].err = ""
    /\ ~ReleasedByCallback(id)
    /\ \E o \in Outcomes : HandleCallback(JobTicket(id), o)

NextLive ==
    \/ /\ Len(jobs) < LiveJobs
       /\ Submit(JobTicket(Len(jobs) + 1), "p1", PriorityNormal)
    \/ \E id \in JobIds : CancelJob(id)
    \/ \E id \in JobIds : Report(id)
    \/ processQueue
    \/ handleResult
    \/ \E id \in JobIds, gitOk \in BOOLEAN : ExecCreate(id, gitOk)
    \/ \E id \in JobIds : ExecAfterCreate(id)
    \/ \E id \in JobIds : ExecReturn(id)
    \/ \E w \in WtIds : DeleteTask(w)

FairSystem ==
    /\ WF_vars(processQueue)
    /\ WF_vars(handleResult)
    /\ \A id \in 1..LiveJobs :
          /\ WF_vars(\E gitOk \in BOOLEAN : ExecCreate(id, gitOk))
          /\ WF_vars(ExecAfterCreate(id))
          /\ WF_vars(ExecReturn(id))
    /\ \A w \in 1..LiveJobs : WF_vars(DeleteTask(w))

SpecLive == InitLive /\ [][NextLive]_vars /\ FairSystem

\* Every workflow that was started reports eventually.
SpecAdmit ==
    InitLive /\ [][NextLive]_vars /\ FairSystem
       /\ \A id \in 1..LiveJobs : WF_vars(Report(id))

HoldsWorktree(id) == id \in JobIds /\ jobs[id].WorktreeID # NoWorktree

C10_FairAdmission ==
    \A id \in 1..LiveJobs :
       (id \in JobIds /\ jobs[id].Status = "pending")
          ~> (id \in JobIds /\ jobs[id].Status # "pending")

\* The first job has failed, and the job past the project's limit was
\* admitted after the three before it.
C10_Witness ==
    /\ Len(jobs) = LiveJobs
    /\ jobs[1].Status = "failed"
    /\ \A id \in JobIds : WasDispatched(id)

----------------------------------------------------------------------------
(* Claims about admission, callbacks and the pending list *)

\* C11: with the project's max parallel set to 1, the jobs of one project run
\* one at a time: while one of them is dispatched or running every other job
\* of the project stays out of these two statuses.
C11_ProjectSerial ==
    \A p \in Projects : Cardinality(ActiveInProject(p)) <= 1

\* The callback at the head of resultChan names a ticket no job has.
UnknownTicket ==
    /\ resultChan # <<>>
    /\ \A id \in JobIds : jobs[id].TicketID # Head(resultChan).TicketID

\* C12: the callback consumer taking a callback whose ticket id no job has
\* changes no job, not the pending list, no project's counter, no worktree
\* and starts no deletion.
C12_UnknownCallback ==
    [][(UnknownTicket /\ resultChan' = Tail(resultChan))
          => UNCHANGED <<jobs, queue, activeJobs, workers, worktrees, delTasks>>]_vars

\* A callback for a ticket no job has is waiting while jobs are in the table.
C12_Witness ==
    /\ UnknownTicket
    /\ Len(jobs) > 0
    /\ \E id \in JobIds : IsActive(jobs[id].Status)

----------------------------------------------------------------------------
(* Claims about the worktree manager *)

\* The worktree ids handed out so far that are no longer in the map.
GoneIds == {id \in 1..(nextWt - 1) : id \notin DOMAIN worktrees}

\* C13: Delete on a worktree id that has already been removed fails with "not
\* found" and leaves the map and the active count as they are, and no call
\* interleaved after the removal brings the id back.
C13_DeleteTwice ==
    /\ [](\A id \in GoneIds :
             /\ deleteError(worktrees, repoCache, id) = "worktree not found"
             /\ deleteMap(worktrees, repoCache, id) = worktrees)
    /\ [][\A id \in GoneIds : id \notin DOMAIN worktrees']_vars

\* A worktree has been deleted while another Delete for it is still to run.
C13_Witness ==
    \E id \in GoneIds : BagIn(id, delTasks)

\* C14: Delete on a worktree id in the map succeeds and removes that record:
\* the id is gone from the map, the active count is one lower and every other
\* record is as before.
C14_DeleteRemoves ==
    \A id \in DOMAIN worktrees :
       LET m == deleteMap(worktrees, repoCache, id)
       IN  /\ deleteError(worktrees, repoCache, id) = "ok"
           /\ DOMAIN m = DOMAIN worktrees \ {id}
           /\ countActive(m) = countActive(worktrees) - 1
           /\ \A w \in DOMAIN m : m[w] = worktrees[w]

\* One worktree has been deleted and another one is in the map.
C14_Witness ==
    /\ GoneIds # {}
    /\ DOMAIN worktrees # {}
    /\ delTasks = EmptyBag

\* C15: a Create that returns an error registers no record: the map, the
\* active count, the repo cache and the ids handed out are as before the call.
C15_FailedCreate ==
    /\ [](\A p \in Projects, gitOk \in BOOLEAN :
             createError(worktrees, repoCache, cfg.MaxActive, p, gitOk) # "ok"
                => createMap(worktrees, repoCache, cfg.MaxActive, nextWt, p,
                             TicketOrder[1], gitOk, clock) = worktrees)
    /\ [][\A id \in JobIds :
             (task[id].pc = "create" /\ task'[id].pc = "created" /\ task'[id].err # "")
                => /\ worktrees' = worktrees
                   /\ countActive(worktrees') = countActive(worktrees)
                   /\ repoCache' = repoCache
                   /\ nextWt' = nextWt]_vars

\* git worktree add has failed for a job while the map holds a worktree.
C15_Witness ==
    /\ \E id \in JobIds : task[id].err = "failed to create worktree"
    /\ DOMAIN worktrees # {}

\* The worktrees older than the max age.
Stale == {w \in DOMAIN worktrees : clock - worktrees[w].LastUsedAt > cfg.MaxAge}

\* C16: Cleanup removes exactly the worktrees whose age exceeds the max age,
\* whatever the status of the jobs that hold them, and leaves the others as
\* they are.
C16_CleanupExact ==
    LET m == cleanupMap(worktrees, clock, cfg.MaxAge)
    IN  /\ DOMAIN m = DOMAIN worktrees \ Stale
        /\ \A w \in DOMAIN m : m[w] = worktrees[w]

\* The worktree of a job that is still running has been swept, a younger
\* one is in the map.
C16_Witness ==
    /\ \E id \in JobIds :
          /\ jobs[id].Status = "running"
          /\ jobs[id].WorktreeID \in GoneIds
    /\ \E w \in DOMAIN worktrees : worktrees[w].LastUsedAt = clock
    /\ Stale = {}
    /\ clock > 0

----------------------------------------------------------------------------
(* The running process and its worktrees over time. main only defers         *)
(* Cleanup, to run when it returns; nothing calls it while the process runs, *)
(* and WorktreeConfig.CleanupInterval is read by no one.                     *)

NextSweep ==
    \/ /\ Len(jobs) < MaxJobs
       /\ Submit(JobTicket(Len(jobs) + 1), "p1", PriorityNormal)
    \/ /\ BagCardinality(delTasks) + Len(resultChan) < MaxDeletes
       /\ \E id \in JobIds : HandleCallback(JobTicket(id), "success")
    \/ processQueue
    \/ handleResult
    \/ \E id \in JobIds, gitOk \in BOOLEAN : ExecCreate(id, gitOk)
    \/ \E id \in JobIds : ExecAfterCreate(id)
    \/ \E id \in JobIds : ExecReturn(id)
    \/ /\ ApiCreated < MaxApiWt
       /\ CreateWorktree("p2", TicketOrder[Len(TicketOrder)], TRUE)
    \/ \E id \in WtIds : DeleteCall(id)
    \/ Tick

SpecSweep == InitCached /\ [][NextSweep]_vars /\ FairSystem

----------------------------------------------------------------------------
(* Claims about provisioning, positions and the pending status *)

\* C18: a Create below the worktree maximum, with git working, for a project
\* without a repo cache entry records the project's clone in the cache and
\* returns a worktree that is in the map; no cache entry is ever removed.
C18_LazyRepo ==
    [][/\ repoCache \subseteq repoCache'
       /\ \A id \in JobIds :
             (ExecCreate(id, TRUE) /\ countActive(worktrees) < cfg.MaxActive)
                => /\ jobs[id].ProjectID \in repoCache'
                   /\ task'[id].err = ""
                   /\ task'[id].wt \in DOMAIN worktrees']_vars

\* C19: the position Submit returns is 1 plus the number of jobs that are
\* pending and ahead of the new job in the order of the pending list; jobs
\* that are dispatched, running or terminal are not counted.
C19_SubmitPosition ==
    [][Len(jobs') = Len(jobs) + 1
          => getQueuePosition(queue', Len(jobs'))
                = 1 + Cardinality({j \in JobIds :
                                      /\ jobs[j].Status = "pending"
                                      /\ jobs[j].Priority >= jobs'[Len(jobs')].Priority})]_vars

\* C20: a job that has left pending never has the status pending again.
C20_NoReturnToPending ==
    [][\A id \in JobIds :
          jobs[id].Status # "pending" => jobs'[id].Status # "pending"]_vars

\* failJob has failed a dispatched job after Create returned an error, and a
\* callback has then been applied to it.
C20_Witness ==
    \E id \in JobIds :
       /\ WasDispatched(id)
       /\ task[id].pc = "done"
       /\ task[id].err # ""
       /\ jobs[id].Status = "completed"

\* A validation that lets every submission through.
createJobErrorNone(ticketID, projectID, prompt) == ""

\* A callback check that looks only at the body.
callbackErrorNoAuth(authHeader, bodyOk) ==
    IF ~bodyOk THEN "Invalid request body" ELSE ""

----------------------------------------------------------------------------
(* Manager.GetStats and Manager.GetJob *)

CountStatus(S) == Cardinality({id \in JobIds : jobs[id].Status \in S})

\* The QueueStats record GetStats returns in the current state.
GetStats ==
    [TotalJobs |-> Len(jobs),
     PendingJobs |-> CountStatus({"pending", "queued"}),
     RunningJobs |-> CountStatus({"running", "dispatched"}),
     CompletedJobs |-> CountStatus({"completed"}),
     FailedJobs |-> CountStatus({"failed"}),
     JobsByProject |-> [p \in Projects |->
                           Cardinality({id \in JobIds : jobs[id].ProjectID = p})],
     ActiveWorkers |-> CountStatus({"running", "dispatched"}),
     MaxWorkers |-> cfg.MaxParallelJobs]

\* GetJob: the pair (job, ok) it returns for job id.
GetJob(js, id) ==
    IF id \in 1..Len(js) THEN [ok |-> TRUE, job |-> js[id]] ELSE [ok |-> FALSE]

\* C21: the ActiveWorkers that GetStats reports is the number of worker slots
\* held by execution tasks, and it is at most MaxWorkers.
C21_WorkerStats ==
    /\ GetStats.ActiveWorkers = workers
    /\ GetStats.ActiveWorkers <= GetStats.MaxWorkers

\* The record Submit returned for job id: the fields Submit sets, read back
\* from the job (C22 checks that no later step changes them).
SubmitRecord(id) ==
    newJob(jobs[id].TicketID, jobs[id].ProjectID, jobs[id].Priority, jobs[id].CreatedAt)

\* Jobs stay in the table and keep the fields Submit has set.
JobsKept ==
    [][\A id \in JobIds :
          /\ GetJob(jobs', id).ok
          /\ jobs'[id].TicketID = jobs[id].TicketID
          /\ jobs'[id].ProjectID = jobs[id].ProjectID
          /\ jobs'[id].Priority = jobs[id].Priority
          /\ jobs'[id].CreatedAt = jobs[id].CreatedAt]_vars

\* C22 as stated: while a job is pending or dispatched GetJob returns the
\* record Submit returned, but for the status, and GetJob finds the job in
\* every later state.
C22_RoundTrip ==
    /\ [](\A id \in JobIds :
             jobs[id].Status \in {"pending", "dispatched"}
                => GetJob(jobs, id).job = [SubmitRecord(id) EXCEPT !.Status = jobs[id].Status])
    /\ JobsKept

\* C22 amended: while a job is pending or dispatched GetJob returns the record
\* Submit returned, but for the status and dispatched_at, and GetJob finds the
\* job in every later state.
C22_RoundTripDispatched ==
    /\ [](\A id \in JobIds :
             jobs[id].Status \in {"pending", "dispatched"}
                => GetJob(jobs, id).job = [SubmitRecord(id) EXCEPT
                                          !.Status = jobs[id].Status,
                                          !.DispatchedAt = jobs[id].DispatchedAt])
    /\ JobsKept

\* A job is fetched after the admission pass has dispatched it, a tick after
\* its submission.
C22_Witness ==
    \E id \in JobIds :
       /\ jobs[id].Status = "dispatched"
       /\ jobs[id].DispatchedAt > jobs[id].CreatedAt

----------------------------------------------------------------------------
(* The HTTP handlers in front of the queue manager *)

\* Handlers.CreateJob: the error of the validation, "" when the request passes.
createJobError(ticketID, projectID, prompt) ==
    IF ticketID = "" \/ projectID = "" \/ prompt = ""
    THEN "ticket_id, project_id, and prompt are required"
    ELSE ""

\* Handlers.CreateJob
CreateJob(ticketID, projectID, prompt, priority) ==
    IF createJobError(ticketID, projectID, prompt) # ""
    THEN UNCHANGED vars
    ELSE Submit(ticketID, projectID, priority)

\* Handlers.HandleCallback: the error of the request, "" when it is accepted.
callbackError(authHeader, bodyOk) ==
    IF authHeader = "" THEN "Missing authorization header"
    ELSE IF ~bodyOk THEN "Invalid request body"
    ELSE ""

\* Handlers.HandleCallback
HandlersHandleCallback(authHeader, bodyOk, ticketID, status) ==
    IF callbackError(authHeader, bodyOk) # ""
    THEN UNCHANGED vars
    ELSE HandleCallback(ticketID, status)

\* The values a request field takes: missing, or present.
HttpTickets == {"", JobTicket(Len(jobs) + 1)}
HttpProjects == {"", "p1"}
HttpPrompts == {"", "prompt"}
HttpAuth == {"", "Bearer secret"}

InitHttp == InitState(Config(1, 1), {})

NextHttp ==
    \/ /\ Len(jobs) < MaxJobs
       /\ \E t \in HttpTickets, p \in HttpProjects, pm \in HttpPrompts :
             CreateJob(t, p, pm, PriorityNormal)
    \/ \E a \in HttpAuth, b \in BOOLEAN, id \in JobIds, o \in Outcomes :
          HandlersHandleCallback(a, b, JobTicket(id), o)
    \/ \E id \in JobIds : CancelJob(id)
    \/ processQueue
    \/ handleResult
    \/ \E id \in JobIds, gitOk \in BOOLEAN : ExecCreate(id, gitOk)
    \/ \E id \in JobIds : ExecAfterCreate(id)
    \/ \E id \in JobIds : ExecReturn(id)
    \/ Tick

SpecHttp == InitHttp /\ [][NextHttp]_vars

\* C23: a submission with an empty ticket id, project id or prompt changes
\* nothing: no job is added and the pending list and the counters are as
\* before; no job in the table has an empty ticket id or project id.
C23_EmptySubmission ==
    /\ [](\A id \in JobIds : jobs[id].TicketID # "" /\ jobs[id].ProjectID # "")
    /\ [][\A t \in HttpTickets, p \in HttpProjects, pm \in HttpPrompts :
             ((t = "" \/ p = "" \/ pm = "") /\ CreateJob(t, p, pm, PriorityNormal))
                => UNCHANGED <<jobs, queue, activeJobs, task>>]_vars

\* The table holds a job, dispatched and counted, and takes more submissions.
C23_Witness ==
    /\ Len(jobs) > 0
    /\ Len(jobs) < MaxJobs
    /\ activeJobs["p1"] > 0
    /\ queue # <<>>

\* C24: a callback request without an Authorization header enqueues no
\* result and changes no job, counter or worktree.
C24_NoCredential ==
    [][\A b \in BOOLEAN, id \in JobIds, o \in Outcomes :
          HandlersHandleCallback("", b, JobTicket(id), o) => UNCHANGED vars]_vars

\* A dispatched job is waiting for its callback and the result queue is empty.
C24_Witness ==
    /\ resultChan = <<>>
    /\ \E id \in JobIds : jobs[id].Status = "dispatched" /\ task[id].pc = "create"

----------------------------------------------------------------------------
(* Claims about the pending list and dispatch *)

\* C29: every job in the pending list has the status pending.
C29_QueueOnlyPending ==
    \A i \in 1..Len(queue) : jobs[queue[i]].Status = "pending"

\* C30: at most one execution task is ever started for a job, and admission
\* passes count a job in its project's counter at most once.
C30_DispatchedOnce ==
    /\ [](\A id \in JobIds : task[id].starts <= 1)
    /\ [][\A p \in Projects :
             activeJobs'[p] > activeJobs[p]
                => activeJobs'[p] - activeJobs[p]
                      = Cardinality({id \in JobIds :
                                        /\ jobs[id].ProjectID = p
                                        /\ task[id].starts = 0
                                        /\ task'[id].starts = 1})]_vars

\* A later admission pass has dispatched job 2 while job 1, dispatched by an
\* earlier pass, is still dispatched and still in the list.
C30_Witness ==
    /\ Len(jobs) = 2
    /\ jobs[1].Status = "dispatched"
    /\ indexOf(queue, 1, 1) # 0
    /\ jobs[2].Status = "dispatched"
    /\ jobs[2].DispatchedAt > jobs[1].DispatchedAt

----------------------------------------------------------------------------
(* The ticket tracker (the web application): the tickets of one project, the *)
(* ticket_dependencies table and the requests whose handler is between two   *)
(* of its database calls. Every `await db...` of a handler is one step.      *)

queueVars == <<cfg, jobs, queue, activeJobs, workers, resultChan, task, worktrees,
               repoCache, nextWt, delTasks, clock, run>>

TicketIds == 1..Len(board.status)

\* SELECT ... WHERE status = 'in_progress' AND id != ticketId
existingInProgress(b, ticketId) ==
    {t \in 1..Len(b.status) : b.status[t] = "in_progress" /\ t # ticketId}

\* The dependencies of ticketId that are not completed.
uncompletedDeps(b, ticketId) ==
    {d \in 1..Len(b.status) : <<ticketId, d>> \in b.deps /\ b.status[d] # "completed"}

\* The elements of a finite set in some order.
RECURSIVE SetToSeq(_)
SetToSeq(S) ==
    IF S = {} THEN <<>>
    ELSE LET x == CHOOSE y \in S : TRUE IN <<x>> \o SetToSeq(S \ {x})

\* The loop of checkCircularDependency over its work list.
RECURSIVE cycleSearch(_, _, _, _)
cycleSearch(deps, ticketId, work, visited) ==
    IF work = <<>> THEN FALSE
    ELSE LET currentId == Head(work)
         IN  IF currentId = ticketId THEN TRUE
             ELSE IF currentId \in visited THEN cycleSearch(deps, ticketId, Tail(work), visited)
             ELSE cycleSearch(deps, ticketId,
                              Tail(work) \o SetToSeq({d \in 1..MaxTickets + 1 :
                                                         <<currentId, d>> \in deps}),
                              visited \cup {currentId})

checkCircularDependency(deps, ticketId, newDependsOnId) ==
    cycleSearch(deps, ticketId, <<newDependsOnId>>, {})

\* A handler that has more database calls to make stays in board.reqs.
BoardStep(b) == board' = b /\ UNCHANGED queueVars
Waiting(r) == r \in board.reqs
Proceed(r, q) == BoardStep([board EXCEPT !.reqs = (@ \ {r}) \cup {q}])
Return(r) == BoardStep([board EXCEPT !.reqs = @ \ {r}])

\* create-ticket: INSERT INTO tickets
CreateTicket(status) ==
    BoardStep([board EXCEPT !.status = Append(@, status)])

\* move-ticket to a status other than in_progress: the UPDATE alone.
MoveTicket(ticketId, newStatus) ==
    /\ newStatus # "in_progress"
    /\ BoardStep([board EXCEPT !.status[ticketId] = newStatus])

\* move-ticket to in_progress: the query for another ticket in progress.
MoveTicketStart(ticketId) ==
    LET r == [op |-> "move-ticket", ticketId |-> ticketId, other |-> 0, pc |-> "deps"]
    IN  /\ Cardinality(board.reqs) < MaxReqs
        /\ IF existingInProgress(board, ticketId) # {}
           THEN UNCHANGED vars
           ELSE BoardStep([board EXCEPT !.reqs = @ \cup {r}])

\* move-ticket to in_progress: the query for the uncompleted dependencies.
MoveTicketDeps(ticketId) ==
    LET r == [op |-> "move-ticket", ticketId |-> ticketId, other |-> 0, pc |-> "deps"]
    IN  /\ Waiting(r)
        /\ IF uncompletedDeps(board, ticketId) # {}
           THEN Return(r)
           ELSE Proceed(r, [r EXCEPT !.pc = "update"])

\* move-ticket to in_progress: the UPDATE.
MoveTicketUpdate(ticketId) ==
    LET r == [op |-> "move-ticket", ticketId |-> ticketId, other |-> 0, pc |-> "update"]
    IN  /\ Waiting(r)
        /\ BoardStep([board EXCEPT !.status[ticketId] = "in_progress",
                                   !.reqs = @ \ {r}])

\* start-agent: the queries for the ticket, the project and another ticket in
\* progress.
StartAgentStart(ticketId) ==
    LET r == [op |-> "start-agent", ticketId |-> ticketId, other |-> 0, pc |-> "dispatch"]
    IN  /\ Cardinality(board.reqs) < MaxReqs
        /\ IF ticketId \notin TicketIds \/ existingInProgress(board, ticketId) # {}
           THEN UNCHANGED vars
           ELSE BoardStep([board EXCEPT !.reqs = @ \cup {r}])

\* start-agent: the repository_dispatch call to GitHub answers.
StartAgentDispatch(ticketId, ok) ==
    LET r == [op |-> "start-agent", ticketId |-> ticketId, other |-> 0, pc |-> "dispatch"]
    IN  /\ Waiting(r)
        /\ IF ok THEN Proceed(r, [r EXCEPT !.pc = "update"]) ELSE Return(r)

\* start-agent: the UPDATE to in_progress.
StartAgentUpdate(ticketId) ==
    LET r == [op |-> "start-agent", ticketId |-> ticketId, other |-> 0, pc |-> "update"]
    IN  /\ Waiting(r)
        /\ BoardStep([board EXCEPT !.status[ticketId] = "in_progress",
                                   !.reqs = @ \ {r}])

\* add-dependency: the self check, the query for the two tickets and
\* checkCircularDependency (its queries read one snapshot of the table here;
\* the code awaits between them, which only adds interleavings).
AddDependencyCheck(ticketId, dependsOnTicketId) ==
    LET r == [op |-> "add-dependency", ticketId |-> ticketId,
              other |-> dependsOnTicketId, pc |-> "existing"]
    IN  /\ Cardinality(board.reqs) < MaxReqs
        /\ IF \/ ticketId = dependsOnTicketId
              \/ ~({ticketId, dependsOnTicketId} \subseteq TicketIds)
              \/ checkCircularDependency(board.deps, ticketId, dependsOnTicketId)
           THEN UNCHANGED vars
           ELSE BoardStep([board EXCEPT !.reqs = @ \cup {r}])

\* add-dependency: the query for an existing row.
AddDependencyExisting(ticketId, dependsOnTicketId) ==
    LET r == [op |-> "add-dependency", ticketId |-> ticketId,
              other |-> dependsOnTicketId, pc |-> "existing"]
    IN  /\ Waiting(r)
        /\ IF <<ticketId, dependsOnTicketId>> \in board.deps
           THEN Return(r)
           ELSE Proceed(r, [r EXCEPT !.pc = "insert"])

\* add-dependency: the INSERT (unique_dependency keeps one row per pair).
AddDependencyInsert(ticketId, dependsOnTicketId) ==
    LET r == [op |-> "add-dependency", ticketId |-> ticketId,
              other |-> dependsOnTicketId, pc |-> "insert"]
    IN  /\ Waiting(r)
        /\ BoardStep([board EXCEPT !.deps = @ \cup {<<ticketId, dependsOnTicketId>>},
                                   !.reqs = @ \ {r}])

\* remove-dependency: the DELETE.
RemoveDependency(ticketId, dependsOnTicketId) ==
    BoardStep([board EXCEPT !.deps = @ \ {<<ticketId, dependsOnTicketId>>}])

\* Tickets are created in the backlog and moved between these columns.
MoveTargets == {"backlog", "completed"}

InitBoard == InitState(Config(1, 1), {})

NextBoard ==
    \/ /\ Len(board.status) < MaxTickets
       /\ CreateTicket("backlog")
    \/ \E t \in TicketIds, st \in MoveTargets : MoveTicket(t, st)
    \/ \E t \in TicketIds : MoveTicketStart(t)
    \/ \E t \in TicketIds : MoveTicketDeps(t)
    \/ \E t \in TicketIds : MoveTicketUpdate(t)
    \/ \E t \in TicketIds : StartAgentStart(t)
    \/ \E t \in TicketIds, ok \in BOOLEAN : StartAgentDispatch(t, ok)
    \/ \E t \in TicketIds : StartAgentUpdate(t)
    \/ \E t, d \in TicketIds : AddDependencyCheck(t, d)
    \/ \E t, d \in TicketIds : AddDependencyExisting(t, d)
    \/ \E t, d \in TicketIds : AddDependencyInsert(t, d)
    \/ \E t, d \in TicketIds : RemoveDependency(t, d)

SpecBoard == InitBoard /\ [][NextBoard]_vars

\* C26: at most one ticket of the project has the status in_progress.
C26_OneInProgress ==
    Cardinality({t \in TicketIds : board.status[t] = "in_progress"}) <= 1

\* C27: no ticket depends on itself, directly or through other tickets.
C27_NoCycle ==
    \A t \in TicketIds :
       \A d \in TicketIds :
          <<t, d>> \in board.deps => ~checkCircularDependency(board.deps, t, d)

\* C28: a ticket gets the status in_progress only in a state in which every
\* ticket it depends on is completed.
C28_DepsCompleted ==
    [][\A t \in TicketIds :
          (board.status[t] # "in_progress" /\ board'.status[t] = "in_progress")
             => uncompletedDeps(board, t) = {}]_vars

----------------------------------------------------------------------------
(* Claims about the worker pool and the execution tasks *)

\* The execution tasks that have been started and have not returned.
InFlight == {id \in JobIds : task[id].pc \in {"create", "created", "exit"}}

\* C32: the execution tasks in flight are never more than MaxParallelJobs, the
\* held worker slots are as many as the tasks in flight, a task that returns
\* gives back one slot, and every task in flight returns.
C32_WorkerSlots ==
    /\ [](Cardinality(InFlight) <= cfg.MaxParallelJobs /\ workers = Cardinality(InFlight))
    /\ [][\A id \in JobIds :
             (id \in InFlight /\ task'[id].pc = "done") => workers' = workers - 1]_vars
    /\ \A id \in 1..LiveJobs : (id \in InFlight) ~> (id \in JobIds /\ task[id].pc = "done")

\* The slot is free again after one task returned from a failed Create and
\* another one after it had marked its job running.
C32_Witness ==
    /\ workers = 0
    /\ \E a, b \in JobIds :
          /\ task[a].pc = "done" /\ task[a].err # "" /\ jobs[a].Status = "failed"
          /\ task[b].pc = "done" /\ task[b].err = "" /\ jobs[b].Status = "running"

\* Job id was admitted and the worktree creation of its execution task failed;
\* failJob has run.
ProvisioningFailed(id) == task[id].err # "" /\ task[id].pc \in {"exit", "done"}

\* C33: a job whose worktree creation failed is failed, with an error message
\* and a completion time, is not in the pending list, has retry count 0 and was
\* dispatched once; its project's counter is lowered once for it: by failJob,
\* unless a callback has already released the job, and by no later step on
\* the job.
C33_ProvisioningFailure ==
    /\ [](\A id \in JobIds :
             ProvisioningFailed(id)
                => /\ jobs[id].Status = "failed"
                   /\ jobs[id].ErrorMessage # ""
                   /\ jobs[id].CompletedAt # NoTime
                   /\ indexOf(queue, id, 1) = 0
                   /\ jobs[id].RetryCount = 0
                   /\ task[id].starts = 1)
    /\ [][\A id \in JobIds :
             LET p == jobs[id].ProjectID
             IN  /\ (~ProvisioningFailed(id) /\ ProvisioningFailed(id)')
                       => activeJobs'[p] = IF jobs[id].Status \in {"dispatched", "cancelled"}
                                           THEN activeJobs[p] - 1
                                           ELSE activeJobs[p]
                 /\ (ProvisioningFailed(id) /\ jobs'[id] # jobs[id])
                       => activeJobs'[p] = activeJobs[p]]_vars

----------------------------------------------------------------------------
(* Claims about the ownership of worktrees *)

\* wtPath := filepath.Join(m.cfg.BasePath, wtID)
wtPath(id) == <<"BasePath", id>>

\* C34: no two jobs have the same non-empty worktree id, the active worktrees
\* have pairwise different paths, a registered worktree a job holds was
\* created for that job's ticket and project, and at most one non-terminal job
\* holds a given worktree id.
C34_WorktreeNotShared ==
    /\ \A a, b \in JobIds :
          (a # b /\ jobs[a].WorktreeID # NoWorktree)
             => jobs[a].WorktreeID # jobs[b].WorktreeID
    /\ \A v, w \in DOMAIN worktrees :
          (v # w /\ worktrees[v].Status = "active" /\ worktrees[w].Status = "active")
             => wtPath(v) # wtPath(w)
    /\ \A id \in JobIds :
          jobs[id].WorktreeID \in DOMAIN worktrees
             => /\ worktrees[jobs[id].WorktreeID].TicketID = jobs[id].TicketID
                /\ worktrees[jobs[id].WorktreeID].ProjectID = jobs[id].ProjectID
    /\ \A w \in DOMAIN worktrees :
          Cardinality({id \in JobIds : /\ jobs[id].WorktreeID = w
                                       /\ ~IsTerminal(jobs[id].Status)}) <= 1

\* Two running jobs, each with its own registered worktree.
C34_Witness ==
    /\ Len(jobs) = 2
    /\ \A id \in JobIds :
          /\ jobs[id].Status = "running"
          /\ jobs[id].WorktreeID \in DOMAIN worktrees

----------------------------------------------------------------------------
(* Claims about the per-project counters and the matching of callbacks *)

\* C36: between two critical sections of the queue manager, each project's
\* active-job counter is the number of that project's jobs whose status is
\* dispatched or running.
C36_CounterConsistent ==
    \A p \in Projects : activeJobs[p] = Cardinality(ActiveInProject(p))

\* C37: when exactly one of the jobs with a result's ticket id is dispatched
\* or running, the callback consumer applies the result to that job and to no
\* other.
C37_CallbackToActive ==
    [][\A a \in JobIds :
          (/\ resultChan # <<>>
           /\ resultChan' = Tail(resultChan)
           /\ {id \in matchingJobs(jobs, Head(resultChan).TicketID) :
                  IsActive(jobs[id].Status)} = {a})
             => jobs' = applyResult(jobs, a, Head(resultChan), clock)]_vars

----------------------------------------------------------------------------
(* The same code lock by lock: taking a lock, the critical section and the   *)
(* release are separate steps, and the admission pass is one step per        *)
(* element of the pending list, so that the goroutines that need no lock     *)
(* (the release of a worker slot) run in the middle of a pass.               *)

\* Lock() succeeds when nobody holds the mutex, RLock() when no writer does.
CanLock(m) == m.w = NoThread /\ m.r = {}
CanRLock(m) == m.w = NoThread
HoldsMu(t) == run.mu.w = t \/ t \in run.mu.r
HoldsWmu(t) == run.wmu.w = t \/ t \in run.wmu.r

\* The fields of the manager an admission pass works on.
QueueState == [jobs |-> jobs, activeJobs |-> activeJobs, workers |-> workers, task |-> task]

\* A pass that goes on to the next job when no worker slot is free.
passStepSkip(i, st) ==
    IF i > Len(queue) THEN [st |-> st, i |-> 0]
    ELSE IF st.jobs[queue[i]].Status # "pending" THEN [st |-> st, i |-> i + 1]
    ELSE IF ~projectHasRoom(st, queue[i]) THEN [st |-> st, i |-> i + 1]
    ELSE IF workerFree(st) THEN [st |-> dispatchJob(st, queue[i]), i |-> i + 1]
    ELSE [st |-> st, i |-> i + 1]

\* One iteration of processQueue's loop at index i: the manager's fields after
\* it and the next index, 0 when the function returns.
passStep(i, st) ==
    IF i > Len(queue) THEN [st |-> st, i |-> 0]
    ELSE IF st.jobs[queue[i]].Status # "pending" THEN [st |-> st, i |-> i + 1]
    ELSE IF ~projectHasRoom(st, queue[i]) THEN [st |-> st, i |-> i + 1]
    ELSE IF workerFree(st) THEN [st |-> dispatchJob(st, queue[i]), i |-> i + 1]
    ELSE [st |-> st, i |-> 0]

\* case <-ticker.C: the Start loop calls processQueue.
LoopTick ==
    /\ run.loop.pc = "select"
    /\ run' = [run EXCEPT !.loop.pc = "processQueue"]
    /\ UNCHANGED <<board, cfg, jobs, queue, activeJobs, workers, resultChan, task,
                   worktrees, repoCache, nextWt, delTasks, clock>>

\* processQueue: m.mu.Lock()
PassLock ==
    /\ run.loop.pc = "processQueue"
    /\ CanLock(run.mu)
    /\ run' = [run EXCEPT !.mu.w = LoopThread, !.loop.pc = "iter", !.loop.i = 1]
    /\ UNCHANGED <<board, cfg, jobs, queue, activeJobs, workers, resultChan, task,
                   worktrees, repoCache, nextWt, delTasks, clock>>

\* processQueue: one iteration of the loop, or the return with its deferred
\* Unlock.
PassIter ==
    /\ run.loop.pc = "iter"
    /\ run.mu.w = LoopThread
    /\ LET s == passStep(run.loop.i, QueueState)
       IN  /\ jobs' = s.st.jobs
           /\ activeJobs' = s.st.activeJobs
           /\ workers' = s.st.workers
           /\ task' = s.st.task
           /\ run' = IF s.i = 0
                     THEN [run EXCEPT !.mu.w = NoThread, !.loop.pc = "select", !.loop.i = 0]
                     ELSE [run EXCEPT !.loop.i = s.i]
    /\ UNCHANGED <<board, cfg, queue, resultChan, worktrees, repoCache, nextWt,
                   delTasks, clock>>

\* Four jobs of one project, one more than its limit, and a job of another
\* project behind them; the pool has room for two jobs or for all of them.
PassProject(id) == IF id <= DefaultProjectMaxParallel + 1 THEN "p1" ELSE "p2"

InitPass == \E n \in {2, JobsOverLimit} : InitState(Config(n, 1), {})

NextPass ==
    \/ /\ Len(jobs) < JobsOverLimit
       /\ CanLock(run.mu)
       /\ Submit(JobTicket(Len(jobs) + 1), PassProject(Len(jobs) + 1), PriorityNormal)
    \/ LoopTick
    \/ PassLock
    \/ PassIter
    \/ \E id \in JobIds : ExecCreate(id, TRUE)
    \/ \E id \in JobIds : CanLock(run.mu) /\ ExecAfterCreate(id)
    \/ \E id \in JobIds : ExecReturn(id)

SpecPass == InitPass /\ [][NextPass]_vars

\* The pass is at the element of the pending list that holds job id.
PassConsiders(id) ==
    /\ run.loop.pc = "iter"
    /\ run.loop.i \in 1..Len(queue)
    /\ queue[run.loop.i] = id

\* C31: a pass goes through the pending list one index after the other; a job
\* is dispatched only when the pass is at it, and then every job ahead of it
\* that is still pending belongs to a project at its limit; a pass that finds
\* no free worker slot for a pending job whose project has room returns there
\* and dispatches nothing more.
C31_PassOrder ==
    [][/\ (run.loop.pc = "iter" /\ run'.loop.pc = "iter" /\ run'.loop # run.loop)
             => run'.loop.i = run.loop.i + 1
       /\ \A b \in JobIds :
             /\ (jobs[b].Status = "pending" /\ jobs'[b].Status = "dispatched")
                   => /\ PassConsiders(b)
                      /\ \A j \in 1..(run.loop.i - 1) :
                            jobs[queue[j]].Status = "pending"
                               => ~projectHasRoom(QueueState, queue[j])
             /\ (/\ PassConsiders(b)
                 /\ run'.loop # run.loop
                 /\ jobs[b].Status = "pending"
                 /\ projectHasRoom(QueueState, b)
                 /\ ~workerFree(QueueState))
                   => /\ run'.loop.pc = "select"
                      /\ run'.mu = FreeMutex
                      /\ jobs' = jobs]_vars

\* The job of the second project has been dispatched while the fourth job of
\* the first project, ahead of it in the list, waits for a project slot.
C31_Witness ==
    /\ Len(jobs) = JobsOverLimit
    /\ jobs[4].Status = "pending"
    /\ jobs[5].Status = "dispatched"
    /\ indexOf(queue, 4, 1) < indexOf(queue, 5, 1)
    /\ activeJobs["p1"] = DefaultProjectMaxParallel

----------------------------------------------------------------------------
(* The callback consumer, the execution tasks, the deletion goroutines and   *)
(* the HTTP handlers, lock by lock.                                          *)

\* case result := <-m.resultChan: the Start loop calls handleResult.
LoopReceive ==
    /\ run.loop.pc = "select"
    /\ resultChan # <<>>
    /\ resultChan' = Tail(resultChan)
    /\ run' = [run EXCEPT !.loop.pc = "handleResult", !.loop.result = Head(resultChan)]
    /\ UNCHANGED <<board, cfg, jobs, queue, activeJobs, workers, task, worktrees,
                   repoCache, nextWt, delTasks, clock>>

\* handleResult: m.mu.Lock()
ResultLock ==
    /\ run.loop.pc = "handleResult"
    /\ CanLock(run.mu)
    /\ run' = [run EXCEPT !.mu.w = LoopThread, !.loop.pc = "handleResult.in"]
    /\ UNCHANGED <<board, cfg, jobs, queue, activeJobs, workers, resultChan, task,
                   worktrees, repoCache, nextWt, delTasks, clock>>

\* handleResult: the body, matching job id (0: no job has the ticket id), and
\* the deferred Unlock.
ResultApply(id) ==
    /\ run.loop.pc = "handleResult.in"
    /\ run.mu.w = LoopThread
    /\ IF id = 0
       THEN /\ matchingJobs(jobs, run.loop.result.TicketID) = {}
            /\ UNCHANGED <<jobs, queue, activeJobs, delTasks>>
       ELSE /\ id \in matchingJobs(jobs, run.loop.result.TicketID)
            /\ jobs' = applyResult(jobs, id, run.loop.result, clock)
            /\ activeJobs' = decActive(activeJobs, jobs[id].ProjectID)
            /\ queue' = removeFromQueue(queue, id)
            /\ delTasks' = IF jobs[id].WorktreeID # NoWorktree
                           THEN delTasks (+) SetToBag({jobs[id].WorktreeID})
                           ELSE delTasks
    /\ run' = [run EXCEPT !.mu.w = NoThread, !.loop.pc = "select",
                          !.loop.result = NoResult]
    /\ UNCHANGED <<board, cfg, workers, resultChan, task, worktrees, repoCache, nextWt,
                   clock>>

\* executeJob -> Create: m.mu.Lock() of the worktree manager
ExecLockW(id) ==
    /\ id \in JobIds
    /\ task[id].pc = "create"
    /\ ~HoldsWmu(ExecThread(id))
    /\ CanLock(run.wmu)
    /\ run' = [run EXCEPT !.wmu.w = ExecThread(id)]
    /\ UNCHANGED <<board, cfg, jobs, queue, activeJobs, workers, resultChan, task,
                   worktrees, repoCache, nextWt, delTasks, clock>>

\* executeJob -> Create: the body (the git command included) and the deferred
\* Unlock.
ExecCreateIn(id, gitOk) ==
    /\ id \in JobIds
    /\ task[id].pc = "create"
    /\ run.wmu.w = ExecThread(id)
    /\ LET err == createError(worktrees, repoCache, cfg.MaxActive, jobs[id].ProjectID, gitOk)
       IN  /\ worktrees' = createMap(worktrees, repoCache, cfg.MaxActive, nextWt,
                                     jobs[id].ProjectID, jobs[id].TicketID, gitOk, clock)
           /\ nextWt' = IF err = "ok" THEN nextWt + 1 ELSE nextWt
           /\ task' = [task EXCEPT ![id].pc = "created",
                                   ![id].wt = IF err = "ok" THEN nextWt ELSE NoWorktree,
                                   ![id].err = IF err = "ok" THEN "" ELSE err]
    /\ run' = [run EXCEPT !.wmu.w = NoThread]
    /\ UNCHANGED <<board, cfg, jobs, queue, activeJobs, workers, resultChan, repoCache,
                   delTasks, clock>>

\* executeJob: m.mu.Lock() before the job is marked running, or in failJob
ExecLockQ(id) ==
    /\ id \in JobIds
    /\ task[id].pc = "created"
    /\ ~HoldsMu(ExecThread(id))
    /\ CanLock(run.mu)
    /\ run' = [run EXCEPT !.mu.w = ExecThread(id)]
    /\ UNCHANGED <<board, cfg, jobs, queue, activeJobs, workers, resultChan, task,
                   worktrees, repoCache, nextWt, delTasks, clock>>

\* A failJob that returns with the queue manager's lock still held.
ExecMarkInHold(id) ==
    /\ id \in JobIds
    /\ task[id].pc = "created"
    /\ run.mu.w = ExecThread(id)
    /\ IF task[id].err # ""
       THEN /\ jobs' = failJob(jobs, id, "Failed to create worktree", clock)
            /\ activeJobs' = decActive(activeJobs, jobs[id].ProjectID)
            /\ queue' = removeFromQueue(queue, id)
            /\ run' = run
       ELSE /\ jobs' = [jobs EXCEPT ![id].WorktreeID = task[id].wt,
                                    ![id].Status = "running",
                                    ![id].StartedAt = clock]
            /\ run' = [run EXCEPT !.mu.w = NoThread]
            /\ UNCHANGED <<activeJobs, queue>>
    /\ task' = [task EXCEPT ![id].pc = "exit"]
    /\ UNCHANGED <<board, cfg, workers, resultChan, worktrees, repoCache, nextWt,
                   delTasks, clock>>

\* executeJob: the job is marked running, or failJob's body; then the Unlock.
ExecMarkIn(id) ==
    /\ id \in JobIds
    /\ task[id].pc = "created"
    /\ run.mu.w = ExecThread(id)
    /\ IF task[id].err # ""
       THEN /\ jobs' = failJob(jobs, id, "Failed to create worktree", clock)
            /\ activeJobs' = decActive(activeJobs, jobs[id].ProjectID)
            /\ queue' = removeFromQueue(queue, id)
       ELSE /\ jobs' = [jobs EXCEPT ![id].WorktreeID = task[id].wt,
                                    ![id].Status = "running",
                                    ![id].StartedAt = clock]
            /\ UNCHANGED <<activeJobs, queue>>
    /\ task' = [task EXCEPT ![id].pc = "exit"]
    /\ run' = [run EXCEPT !.mu.w = NoThread]
    /\ UNCHANGED <<board, cfg, workers, resultChan, worktrees, repoCache, nextWt,
                   delTasks, clock>>

\* go m.worktreeManager.Delete(id): m.mu.Lock() of the worktree manager
DelLock(w) ==
    /\ BagIn(w, delTasks)
    /\ CanLock(run.wmu)
    /\ run' = [run EXCEPT !.wmu.w = DelThread(w)]
    /\ UNCHANGED <<board, cfg, jobs, queue, activeJobs, workers, resultChan, task,
                   worktrees, repoCache, nextWt, delTasks, clock>>

\* go m.worktreeManager.Delete(id): the body and the deferred Unlock
DelIn(w) ==
    /\ run.wmu.w = DelThread(w)
    /\ worktrees' = deleteMap(worktrees, repoCache, w)
    /\ delTasks' = delTasks (-) SetToBag({w})
    /\ run' = [run EXCEPT !.wmu.w = NoThread]
    /\ UNCHANGED <<board, cfg, jobs, queue, activeJobs, workers, resultChan, task,
                   repoCache, nextWt, clock>>

\* The operations of the HTTP API and the lock each of them takes.
QueueWriters == {"Submit", "CancelJob"}
QueueReaders == {"GetJob", "GetStats"}
WorktreeWriters == {"CreateWorktree", "DeleteWorktree"}

\* The server starts the handler of a request: it runs up to the manager's
\* Lock, or up to the send on resultChan.
ApiBegin(c, op) ==
    /\ run.api[c].op = "idle"
    /\ run' = [run EXCEPT !.api[c] = [op |-> op,
                                      pc |-> IF op = "HandleCallback" THEN "send"
                                             ELSE "lock"]]
    /\ UNCHANGED <<board, cfg, jobs, queue, activeJobs, workers, resultChan, task,
                   worktrees, repoCache, nextWt, delTasks, clock>>

\* Submit, CancelJob: m.mu.Lock()
ApiLock(c) ==
    /\ run.api[c].op \in QueueWriters
    /\ run.api[c].pc = "lock"
    /\ CanLock(run.mu)
    /\ run' = [run EXCEPT !.mu.w = ApiThread(c), !.api[c].pc = "in"]
    /\ UNCHANGED <<board, cfg, jobs, queue, activeJobs, workers, resultChan, task,
                   worktrees, repoCache, nextWt, delTasks, clock>>

\* GetJob, GetStats: m.mu.RLock()
ApiRLock(c) ==
    /\ run.api[c].op \in QueueReaders
    /\ run.api[c].pc = "lock"
    /\ CanRLock(run.mu)
    /\ run' = [run EXCEPT !.mu.r = @ \cup {ApiThread(c)}, !.api[c].pc = "in"]
    /\ UNCHANGED <<board, cfg, jobs, queue, activeJobs, workers, resultChan, task,
                   worktrees, repoCache, nextWt, delTasks, clock>>

\* Create, Delete of the worktree manager: m.mu.Lock()
ApiLockW(c) ==
    /\ run.api[c].op \in WorktreeWriters
    /\ run.api[c].pc = "lock"
    /\ CanLock(run.wmu)
    /\ run' = [run EXCEPT !.wmu.w = ApiThread(c), !.api[c].pc = "in"]
    /\ UNCHANGED <<board, cfg, jobs, queue, activeJobs, workers, resultChan, task,
                   worktrees, repoCache, nextWt, delTasks, clock>>

\* Submit: the body and the deferred Unlock; the handler still has to encode
\* the response, which holds the pointer to the job.
SubmitIn(c, ticketID, projectID, priority) ==
    /\ run.api[c] = [op |-> "Submit", pc |-> "in"]
    /\ run.mu.w = ApiThread(c)
    /\ LET id == Len(jobs) + 1
           js == Append(jobs, newJob(ticketID, projectID, priority, clock))
       IN  /\ jobs' = js
           /\ queue' = insertByPriority(js, queue, id)
           /\ task' = Append(task, newTask)
    /\ run' = [run EXCEPT !.mu.w = NoThread, !.api[c].pc = "encode"]
    /\ UNCHANGED <<board, cfg, activeJobs, workers, resultChan, worktrees, repoCache,
                   nextWt, delTasks, clock>>

\* CancelJob: the body and the deferred Unlock; the response holds no job.
CancelIn(c, id) ==
    /\ run.api[c] = [op |-> "CancelJob", pc |-> "in"]
    /\ run.mu.w = ApiThread(c)
    /\ IF cancelError(jobs, id) = ""
       THEN /\ jobs' = [jobs EXCEPT ![id].Status = "cancelled", ![id].CompletedAt = clock]
            /\ queue' = removeFromQueue(queue, id)
       ELSE UNCHANGED <<jobs, queue>>
    /\ run' = [run EXCEPT !.mu.w = NoThread, !.api[c] = [op |-> "idle", pc |-> "idle"]]
    /\ UNCHANGED <<board, cfg, activeJobs, workers, resultChan, task, worktrees,
                   repoCache, nextWt, delTasks, clock>>

\* GetJob: the lookup and the deferred RUnlock; the handler encodes the job it
\* got, or answers 404.
GetJobIn(c, id) ==
    /\ run.api[c] = [op |-> "GetJob", pc |-> "in"]
    /\ ApiThread(c) \in run.mu.r
    /\ run' = [run EXCEPT !.mu.r = @ \ {ApiThread(c)},
                          !.api[c] = IF GetJob(jobs, id).ok
                                     THEN [op |-> "GetJob", pc |-> "encode"]
                                     ELSE [op |-> "idle", pc |-> "idle"]]
    /\ UNCHANGED <<board, cfg, jobs, queue, activeJobs, workers, resultChan, task,
                   worktrees, repoCache, nextWt, delTasks, clock>>

\* GetStats: the counts and the deferred RUnlock; the response is a copy.
GetStatsIn(c) ==
    /\ run.api[c] = [op |-> "GetStats", pc |-> "in"]
    /\ ApiThread(c) \in run.mu.r
    /\ run' = [run EXCEPT !.mu.r = @ \ {ApiThread(c)},
                          !.api[c] = [op |-> "idle", pc |-> "idle"]]
    /\ UNCHANGED <<board, cfg, jobs, queue, activeJobs, workers, resultChan, task,
                   worktrees, repoCache, nextWt, delTasks, clock>>

\* CreateJob, GetJob of the handlers: writeJSON of the *models.Job
ApiEncode(c) ==
    /\ run.api[c].pc = "encode"
    /\ run' = [run EXCEPT !.api[c] = [op |-> "idle", pc |-> "idle"]]
    /\ UNCHANGED <<board, cfg, jobs, queue, activeJobs, workers, resultChan, task,
                   worktrees, repoCache, nextWt, delTasks, clock>>

\* HandleCallback: m.resultChan <- result
CallbackSend(c, ticketID, status) ==
    /\ run.api[c] = [op |-> "HandleCallback", pc |-> "send"]
    /\ Len(resultChan) < ResultChanCap
    /\ Len(resultChan) < MaxResults
    /\ resultChan' = Append(resultChan, [TicketID |-> ticketID, Status |-> status])
    /\ run' = [run EXCEPT !.api[c] = [op |-> "idle", pc |-> "idle"]]
    /\ UNCHANGED <<board, cfg, jobs, queue, activeJobs, workers, task, worktrees,
                   repoCache, nextWt, delTasks, clock>>

\* Handlers.CreateWorktree -> Create: the body and the deferred Unlock
CreateWorktreeIn(c, projectID, ticketID, gitOk) ==
    /\ run.api[c] = [op |-> "CreateWorktree", pc |-> "in"]
    /\ run.wmu.w = ApiThread(c)
    /\ LET err == createError(worktrees, repoCache, cfg.MaxActive, projectID, gitOk)
       IN  /\ worktrees' = createMap(worktrees, repoCache, cfg.MaxActive, nextWt,
                                     projectID, ticketID, gitOk, clock)
           /\ nextWt' = IF err = "ok" THEN nextWt + 1 ELSE nextWt
    /\ run' = [run EXCEPT !.wmu.w = NoThread, !.api[c] = [op |-> "idle", pc |-> "idle"]]
    /\ UNCHANGED <<board, cfg, jobs, queue, activeJobs, workers, resultChan, task,
                   repoCache, delTasks, clock>>

\* Handlers.DeleteWorktree -> Delete: the body and the deferred Unlock
DeleteWorktreeIn(c, w) ==
    /\ run.api[c] = [op |-> "DeleteWorktree", pc |-> "in"]
    /\ run.wmu.w = ApiThread(c)
    /\ worktrees' = deleteMap(worktrees, repoCache, w)
    /\ run' = [run EXCEPT !.wmu.w = NoThread, !.api[c] = [op |-> "idle", pc |-> "idle"]]
    /\ UNCHANGED <<board, cfg, jobs, queue, activeJobs, workers, resultChan, task,
                   repoCache, nextWt, delTasks, clock>>

----------------------------------------------------------------------------
(* The whole service lock by lock: one worker slot, one project, one job,    *)
(* up to MaxCallers requests being handled at a time: the first connection   *)
(* carries every kind of request, further ones the callbacks and the         *)
(* worktree requests.                                                        *)

LockJobs == MaxJobs - 1

\* The operations requested over connection c.
CallerOps(c) ==
    IF c = 1
    THEN QueueWriters \cup QueueReaders \cup WorktreeWriters \cup {"HandleCallback"}
    ELSE WorktreeWriters \cup {"HandleCallback"}

\* The requests being handled whose operation is op.
Handling(op) == {c \in Callers : run.api[c].op = op}

\* The callbacks not yet dealt with: being sent, queued, in the hands of the
\* Start loop, or with their worktree removal still running.
CallbacksInFlight ==
    Cardinality(Handling("HandleCallback")) + Len(resultChan)
       + (IF run.loop.result = NoResult THEN 0 ELSE 1) + BagCardinality(delTasks)

\* The requests the outside may send now.
MayBegin(op) ==
    CASE op = "Submit" -> Len(jobs) + Cardinality(Handling("Submit")) < LockJobs
      [] op = "HandleCallback" -> CallbacksInFlight <= MaxResults
      [] op = "CreateWorktree" ->
            ApiCreated + Cardinality(Handling("CreateWorktree")) < MaxApiWt
      [] OTHER -> TRUE

InitLocks == \E cache \in {{}, {"p1"}} : InitState(Config(1, 1), cache)

NextLocks ==
    \/ \E c \in Callers : \E op \in CallerOps(c) : MayBegin(op) /\ ApiBegin(c, op)
    \/ \E c \in Callers : ApiLock(c)
    \/ \E c \in Callers : ApiRLock(c)
    \/ \E c \in Callers : ApiLockW(c)
    \/ \E c \in Callers : SubmitIn(c, JobTicket(Len(jobs) + 1), "p1", PriorityNormal)
    \/ \E c \in Callers, id \in 1..LockJobs : CancelIn(c, id)
    \/ \E c \in Callers, id \in 1..LockJobs : GetJobIn(c, id)
    \/ \E c \in Callers : GetStatsIn(c)
    \/ \E c \in Callers : ApiEncode(c)
    \/ \E c \in Callers, id \in 1..LockJobs : CallbackSend(c, JobTicket(id), "success")
    \/ \E c \in Callers : CreateWorktreeIn(c, "p1", TicketOrder[Len(TicketOrder)], TRUE)
    \/ \E c \in Callers, w \in WtIds : DeleteWorktreeIn(c, w)
    \/ LoopTick
    \/ PassLock
    \/ PassIter
    \/ LoopReceive
    \/ ResultLock
    \/ \E id \in {0} \cup JobIds : ResultApply(id)
    \/ \E id \in JobIds : ExecLockW(id)
    \/ \E id \in JobIds, gitOk \in BOOLEAN : ExecCreateIn(id, gitOk)
    \/ \E id \in JobIds : ExecLockQ(id)
    \/ \E id \in JobIds : ExecMarkIn(id)
    \/ \E id \in JobIds : ExecReturn(id)
    \/ \E w \in WtIds : DelLock(w)
    \/ \E w \in WtIds : DelIn(w)

SpecLocks == InitLocks /\ [][NextLocks]_vars

----------------------------------------------------------------------------
(* Claims about the locks *)

Threads ==
    {LoopThread} \cup {ExecThread(id) : id \in JobIds}
       \cup {ApiThread(c) : c \in Callers} \cup {DelThread(w) : w \in WtIds}

\* Thread t is where the code runs a git command or the dispatch call.
DoesIO(t) ==
    \/ \E id \in JobIds :
          /\ t = ExecThread(id)
          /\ \/ task[id].pc = "create" /\ run.wmu.w = t
             \/ task[id].pc = "exit" /\ task[id].err = ""
    \/ \E c \in Callers :
          t = ApiThread(c) /\ run.api[c].op \in WorktreeWriters /\ run.api[c].pc = "in"
    \/ \E w \in WtIds : t = DelThread(w) /\ run.wmu.w = t

\* Thread t waits for the worktree manager's lock or holds it.
WantsWmu(t) ==
    \/ \E id \in JobIds : t = ExecThread(id) /\ task[id].pc = "create"
    \/ \E c \in Callers :
          t = ApiThread(c) /\ run.api[c].op \in WorktreeWriters
                           /\ run.api[c].pc \in {"lock", "in"}
    \/ \E w \in WtIds : t = DelThread(w) /\ BagIn(w, delTasks)

\* Thread t is where the code reads or writes a job, the pending list or the
\* per-project counters: the bodies of the manager's methods; executeJob's
\* reads of the job for the log line, for Create's arguments and for the
\* dispatch call; the handlers' encoding of the job a method returned.
AccessesQueueData(t) ==
    \/ t = LoopThread /\ run.loop.pc \in {"iter", "handleResult.in"}
    \/ \E id \in JobIds :
          /\ t = ExecThread(id)
          /\ \/ task[id].pc = "create" /\ ~HoldsWmu(t)
             \/ task[id].pc = "created" /\ run.mu.w = t
             \/ task[id].pc = "exit" /\ task[id].err = ""
    \/ \E c \in Callers :
          /\ t = ApiThread(c)
          /\ \/ run.api[c].op \in QueueWriters \cup QueueReaders /\ run.api[c].pc = "in"
             \/ run.api[c].pc = "encode"

\* C35: a thread that holds the queue manager's lock runs no git or dispatch
\* I/O and neither waits for nor holds the worktree manager's lock, and a
\* thread that reads or writes the job table, the pending list or the
\* counters holds the queue manager's lock.
C35_LockDiscipline ==
    \A t \in Threads :
       /\ HoldsMu(t) => (~DoesIO(t) /\ ~WantsWmu(t))
       /\ AccessesQueueData(t) => HoldsMu(t)

\* The steps of one goroutine: those that wait for another goroutine (a Lock,
\* a send) and those that only need the processor.
LoopAcquire == PassLock \/ ResultLock
LoopBody == LoopTick \/ PassIter \/ \E id \in {0} \cup JobIds : ResultApply(id)
ExecAcquire(id) == ExecLockW(id) \/ ExecLockQ(id)
ExecBody(id) ==
    \/ \E gitOk \in BOOLEAN : ExecCreateIn(id, gitOk)
    \/ ExecMarkIn(id)
    \/ ExecReturn(id)
ApiAcquire(c) ==
    \/ ApiLock(c) \/ ApiRLock(c) \/ ApiLockW(c)
    \/ \E id \in 1..LockJobs : CallbackSend(c, JobTicket(id), "success")
ApiBody(c) ==
    \/ SubmitIn(c, JobTicket(Len(jobs) + 1), "p1", PriorityNormal)
    \/ \E id \in 1..LockJobs : CancelIn(c, id) \/ GetJobIn(c, id)
    \/ GetStatsIn(c) \/ ApiEncode(c)
    \/ CreateWorktreeIn(c, "p1", TicketOrder[Len(TicketOrder)], TRUE)
    \/ \E w \in WtIds : DeleteWorktreeIn(c, w)

\* Scheduling: the Go scheduler runs every goroutine that can run; a goroutine
\* waiting in Lock gets the mutex after finitely many releases (sync.Mutex
\* hands it to a starving waiter); select takes a ready case at random, so a
\* result that stays in the channel is received; blocked senders are served
\* in turn. Requests begin when the outside sends them.
FairLocks ==
    /\ SF_vars(LoopBody \/ LoopAcquire) /\ SF_vars(LoopReceive)
    /\ \A id \in 1..LockJobs : SF_vars(ExecBody(id) \/ ExecAcquire(id))
    /\ \A w \in 1..(LockJobs + MaxApiWt) : SF_vars(DelIn(w) \/ DelLock(w))
    /\ \A c \in Callers : SF_vars(ApiBody(c) \/ ApiAcquire(c))

SpecLocksFair == InitLocks /\ [][NextLocks]_vars /\ FairLocks

\* A step of a goroutine that is already running: everything but the arrival
\* of a request.
Progress ==
    \/ LoopBody \/ LoopAcquire \/ LoopReceive
    \/ \E id \in JobIds : ExecBody(id) \/ ExecAcquire(id)
    \/ \E w \in WtIds : DelIn(w) \/ DelLock(w)
    \/ \E c \in Callers : ApiBody(c) \/ ApiAcquire(c)

\* C39: some running goroutine can always take a step, and under fair
\* scheduling every request that waits for a lock or for room in resultChan is
\* answered, every call of the Start loop returns to the select, every
\* execution task returns, and every lock that is held is released.
C39_NoDeadlock ==
    /\ [](ENABLED <<Progress>>_vars)
    /\ \A c \in Callers : (run.api[c].op # "idle") ~> (run.api[c].op = "idle")
    /\ (run.loop.pc # "select") ~> (run.loop.pc = "select")
    /\ \A id \in 1..LockJobs : (id \in InFlight) ~> (id \in JobIds /\ task[id].pc = "done")
    /\ (run.mu # FreeMutex) ~> (run.mu = FreeMutex)
    /\ (run.wmu # FreeMutex) ~> (run.wmu = FreeMutex)

\* The execution task holds the queue manager's lock while the Start loop
\* waits for it and a callback waits for room in the full result queue.
C39_Witness ==
    /\ \E id \in JobIds : run.mu.w = ExecThread(id)
    /\ run.loop.pc = "processQueue"
    /\ run.api[1] = [op |-> "HandleCallback", pc |-> "send"]
    /\ Len(resultChan) = MaxResults

====
